---------------------------- MODULE Spec2Model ----------------------------
(***************************************************************************)
(* Model of the notification delivery processor                            *)
(* (notifications_delivery/processor/sqs_processor.py).                    *)
(*                                                                         *)
(* A cycle (process_notification_job -> process_all_queues) lists the      *)
(* queues, receives one batch per queue and runs every received message    *)
(* through _process_message, then deletes it or leaves it for redelivery.  *)
(*                                                                         *)
(* The collaborators (SES, Twilio, the notify API client, SQS) are the     *)
(* environment: every call to them picks its outcome nondeterministically. *)
(* HTTP503Error, HTTPError and InvalidResponse (notifications_python_client, *)
(* not part of this repository) are taken as the three outcomes the handler *)
(* chains of lines 93-98 and 118-123 tell apart, each caught by the clause  *)
(* that names it.                                                           *)
(***************************************************************************)
EXTENDS Naturals, Sequences, FiniteSets

\* ------------------------------------------------------------------ bounds
MaxMsgs == 2                \* messages ever put on the queues
MaxNumberOfMessages == 2    \* config['PROCESSOR_MAX_NUMBER_OF_MESSAGES']

\* ------------------------------------------------------------- vocabulary
Queues == <<"queue-a", "queue-b">>      \* what _get_all_queues lists
QueueIdx == 1..Len(Queues)
MsgIds == 1..MaxMsgs

\* Where the producer can have put the messages: ids are given queue by queue.
Placements == { f \in [MsgIds -> QueueIdx] : \A m, n \in MsgIds : m <= n => f[m] <= f[n] }

Absent == "absent"          \* the payload has no 'job' key
JobValues == {Absent, "", "J1"}

EmailPayload   == {"to_address", "from_address", "subject", "body"}
EmailPartial   == {"to_address"}
SmsInline      == {"to", "content"}
SmsTemplate    == {"to", "template"}
SmsBare        == {"to"}
NoRecipient    == {"content"}

Msg(type, keys, job) ==
    [signed |-> TRUE, attrs |-> TRUE, type |-> type, keys |-> keys, job |-> job]

\* The messages a producer can have put on a queue: an authentic body with all
\* four attributes and one of the payload shapes, with or without a job (the
\* empty job on two of them); a body whose signature does not verify; a
\* message lacking a required attribute.
Messages ==
    { Msg("email", EmailPayload, j) : j \in {Absent, "J1"} }
    \cup { Msg("email", EmailPartial, "J1") }
    \cup { Msg("sms", SmsInline, j) : j \in JobValues }
    \cup { Msg("sms", SmsTemplate, j) : j \in {Absent, "J1"} }
    \cup { Msg("sms", SmsBare, j) : j \in {Absent, "J1"} }
    \cup { Msg("sms", NoRecipient, "J1") }
    \cup { Msg("fax", SmsBare, j) : j \in JobValues }
    \cup { [signed |-> FALSE, attrs |-> TRUE, type |-> "sms", keys |-> SmsInline, job |-> Absent],
           [signed |-> TRUE, attrs |-> FALSE, type |-> "sms", keys |-> SmsInline, job |-> Absent] }

GatewayOutcomes  == {"ok", "client_error", "other"}
ApiOutcomes      == {"ok", "503", "http", "invalid", "other"}
DeleteOutcomes   == {"ok", "fails"}

NoExc == "none"
ProcessingError == "ProcessingError"
ExternalConnectionError == "ExternalConnectionError"
InvalidResponse == "InvalidResponse"
Unclassified == "Unclassified"     \* any exception outside the three above

Call(op, res) == [op |-> op, res |-> res]

VARIABLES
    msgs,       \* msgs[m]: the message with id m, once the processor has read it
    inQueue,    \* ids of the messages not deleted from their queue
    leased,     \* ids of received messages whose visibility timeout runs
    pc,         \* "idle" | "poll" | "batch": position in process_all_queues
    qi,         \* index in Queues of the queue being processed
    batch,      \* messages of the current batch still to process
    last,       \* the iteration of the message loop just finished, if any
    polled,     \* queues whose receive_messages was called in the running cycle
    disp,       \* disp[m]: what the running cycle did with m
    queueOf,    \* queueOf[m]: index of the queue the producer put m on
    cycleExc,   \* whether the last cycle ended in process_notification_job's handler
    obs         \* obs[m]: what RetrySpec has seen of the earlier attempts on m

vars == <<msgs, inQueue, leased, pc, qi, batch, last, polled, disp, queueOf, cycleExc, obs>>

\* ------------------------------------------------- _process_message, pure
\* Lines 63-70: decrypt the body, read the four attributes, the job and the
\* recipient.  Each of them raises an exception that is neither
\* ProcessingError nor ExternalConnectionError (BadSignature, AttributeError,
\* KeyError), before the try block of line 72 is entered.
DecodeExc(d) ==
    IF ~d.signed THEN Unclassified                                  \* line 63
    ELSE IF ~d.attrs THEN Unclassified                              \* lines 64-67
    ELSE IF "to" \notin d.keys /\ "to_address" \notin d.keys
         THEN Unclassified                                          \* line 70
    ELSE NoExc

\* Mutant of JobIdTruthy: the finalizer without the test of line 109.
JobIdIgnored(d) == TRUE

\* Line 68 and the test of line 109: job_id is the payload's job or None, and
\* the finalizer runs when it is truthy.
JobIdTruthy(d) == d.job # Absent /\ d.job # ""

\* aws_ses_client.send_email(...) with the AwsSesClientException handler,
\* lines 74-82.  The arguments are read from the payload before the call.
SendEmail(d, gw) ==
    IF ~(EmailPayload \subseteq d.keys)
    THEN [calls |-> <<>>, status |-> "failed", exc |-> Unclassified]
    ELSE IF gw = "ok"
    THEN [calls |-> <<Call("send_email", "ok")>>, status |-> "sent", exc |-> NoExc]
    ELSE IF gw = "client_error"
    THEN [calls |-> <<Call("send_email", "client_error")>>, status |-> "failed",
          exc |-> ProcessingError]
    ELSE [calls |-> <<Call("send_email", "other")>>, status |-> "failed",
          exc |-> Unclassified]

\* Mutant of SendSms: status set to 'sent' before the call instead of after it.
SendSmsStatusFirst(d, gw) ==
    IF "to" \notin d.keys
    THEN [calls |-> <<Call("send_sms", "other")>>, status |-> "sent", exc |-> Unclassified]
    ELSE IF gw = "ok"
    THEN [calls |-> <<Call("send_sms", "ok")>>, status |-> "sent", exc |-> NoExc]
    ELSE IF gw = "client_error"
    THEN [calls |-> <<Call("send_sms", "client_error")>>, status |-> "sent",
          exc |-> ProcessingError]
    ELSE [calls |-> <<Call("send_sms", "other")>>, status |-> "sent",
          exc |-> Unclassified]

\* twilio_client.send_sms(content, body) with the TwilioClientException
\* handler, lines 85-89 and 99-103; TwilioClient.send_sms reads
\* notification['to'] and turns TwilioRestException into TwilioClientException.
SendSms(d, gw) ==
    IF "to" \notin d.keys
    THEN [calls |-> <<Call("send_sms", "other")>>, status |-> "failed", exc |-> Unclassified]
    ELSE IF gw = "ok"
    THEN [calls |-> <<Call("send_sms", "ok")>>, status |-> "sent", exc |-> NoExc]
    ELSE IF gw = "client_error"
    THEN [calls |-> <<Call("send_sms", "client_error")>>, status |-> "failed",
          exc |-> ProcessingError]
    ELSE [calls |-> <<Call("send_sms", "other")>>, status |-> "failed",
          exc |-> Unclassified]

\* Mutant of ApiExc: the HTTPError clause placed first, so that it also takes
\* service-unavailable.
ApiExcHttpFirst(res) ==
    IF res = "ok" THEN NoExc
    ELSE IF res = "503" THEN ProcessingError
    ELSE IF res = "http" THEN ProcessingError
    ELSE IF res = "invalid" THEN InvalidResponse
    ELSE Unclassified

\* The handler chain around a notify API call, lines 93-98 and 118-123.
ApiExc(res) ==
    IF res = "ok" THEN NoExc
    ELSE IF res = "503" THEN ExternalConnectionError
    ELSE IF res = "http" THEN ProcessingError
    ELSE IF res = "invalid" THEN InvalidResponse
    ELSE Unclassified

\* Mutant of Dispatch: no else branch, an unrecognised type passes silently.
DispatchSkipsUnknownType(d, gw, rs) ==
    IF d.type = "email" THEN SendEmail(d, gw)
    ELSE IF d.type = "sms" THEN
        IF "content" \in d.keys THEN SendSms(d, gw)
        ELSE IF "template" \in d.keys THEN
            IF rs = "ok"
            THEN LET s == SendSms(d, gw)
                 IN  [s EXCEPT !.calls = <<Call("get_template", "ok")>> \o s.calls]
            ELSE [calls |-> <<Call("get_template", rs)>>, status |-> "failed",
                  exc |-> ApiExc(rs)]
        ELSE [calls |-> <<>>, status |-> "failed", exc |-> NoExc]
    ELSE [calls |-> <<>>, status |-> "failed", exc |-> NoExc]

\* The try block, lines 72-107.
Dispatch(d, gw, rs) ==
    IF d.type = "email" THEN SendEmail(d, gw)
    ELSE IF d.type = "sms" THEN
        IF "content" \in d.keys THEN SendSms(d, gw)
        ELSE IF "template" \in d.keys THEN
            IF rs = "ok"
            THEN LET s == SendSms(d, gw)
                 IN  [s EXCEPT !.calls = <<Call("get_template", "ok")>> \o s.calls]
            ELSE [calls |-> <<Call("get_template", rs)>>, status |-> "failed",
                  exc |-> ApiExc(rs)]
        ELSE [calls |-> <<>>, status |-> "failed", exc |-> NoExc]
    ELSE [calls |-> <<>>, status |-> "failed", exc |-> ProcessingError]

\* Mutant of Finalize: the report made after the try block instead of in a
\* finally clause, so that it is skipped when dispatch raised.
FinalizeOnSuccessOnly(d, r, rp) ==
    IF JobIdTruthy(d) /\ r.exc = NoExc
    THEN [calls    |-> r.calls \o <<Call("create_notification", rp)>>,
          status   |-> r.status,
          reported |-> <<r.status>>,
          dispExc  |-> r.exc,
          exc      |-> IF rp = "ok" THEN r.exc ELSE ApiExc(rp)]
    ELSE [calls    |-> r.calls,
          status   |-> r.status,
          reported |-> <<>>,
          dispExc  |-> r.exc,
          exc      |-> r.exc]

\* Mutant of Finalize: a failure of the report does not replace a dispatch
\* failure already in flight.
FinalizeKeepsDispatchError(d, r, rp) ==
    IF JobIdTruthy(d)
    THEN [calls    |-> r.calls \o <<Call("create_notification", rp)>>,
          status   |-> r.status,
          reported |-> <<r.status>>,
          dispExc  |-> r.exc,
          exc      |-> IF rp = "ok" \/ r.exc # NoExc THEN r.exc ELSE ApiExc(rp)]
    ELSE [calls    |-> r.calls,
          status   |-> r.status,
          reported |-> <<>>,
          dispExc  |-> r.exc,
          exc      |-> r.exc]

\* Mutant of Finalize: the report always says 'sent', whatever dispatch set.
FinalizeReportsSent(d, r, rp) ==
    IF JobIdTruthy(d)
    THEN [calls    |-> r.calls \o <<Call("create_notification", rp)>>,
          status   |-> r.status,
          reported |-> <<"sent">>,
          dispExc  |-> r.exc,
          exc      |-> IF rp = "ok" THEN r.exc ELSE ApiExc(rp)]
    ELSE [calls    |-> r.calls,
          status   |-> r.status,
          reported |-> <<>>,
          dispExc  |-> r.exc,
          exc      |-> r.exc]

\* The finally block, lines 108-123, after a dispatch that ended as r: the
\* exception that leaves _process_message, and the calls made.  An exception
\* raised in a finally block replaces the one in flight.
Finalize(d, r, rp) ==
    IF JobIdTruthy(d)
    THEN [calls    |-> r.calls \o <<Call("create_notification", rp)>>,
          status   |-> r.status,
          reported |-> <<r.status>>,
          dispExc  |-> r.exc,
          exc      |-> IF rp = "ok" THEN r.exc ELSE ApiExc(rp)]
    ELSE [calls    |-> r.calls,
          status   |-> r.status,
          reported |-> <<>>,
          dispExc  |-> r.exc,
          exc      |-> r.exc]

\* _process_message, lines 62-123.
ProcessMessageResult(d, gw, rs, rp) ==
    IF DecodeExc(d) # NoExc
    THEN [calls |-> <<>>, status |-> "failed", reported |-> <<>>,
          dispExc |-> NoExc, exc |-> DecodeExc(d)]
    ELSE Finalize(d, Dispatch(d, gw, rs), rp)

\* Mutant of HandlerDecision: to_delete initialised to False and set to True
\* by the ProcessingError handler only.
HandlerRetainsByDefault(exc) ==
    IF exc = NoExc THEN "retain"
    ELSE IF exc = ProcessingError THEN "delete"
    ELSE IF exc = ExternalConnectionError THEN "retain"
    ELSE "propagate"

\* Lines 150-166: what the message loop does with the exception that left
\* _process_message: "delete" (to_delete stays True), "retain" (to_delete set
\* to False), or "propagate" to the handler of line 170.
HandlerDecision(exc) ==
    IF exc = NoExc THEN "delete"
    ELSE IF exc = ProcessingError THEN "delete"
    ELSE IF exc = ExternalConnectionError THEN "retain"
    ELSE "propagate"

\* Mutant of QueueAfterFault: the handler placed around the loop over the
\* queues, so that an escaped exception ends the cycle.
QueueAfterFaultEndsCycle(q) == Len(Queues) + 1

\* Line 170: the handler of an exception that escaped the message loop is
\* inside the loop over the queues, which goes on with the next queue.
QueueAfterFault(q) == q + 1

\* ------------------------------------------------------- the state machine
\* Placeholders of msgs[m]: in the queue and not yet read; deleted.
Unread == [signed |-> FALSE, attrs |-> FALSE, type |-> "unread", keys |-> {}, job |-> Absent]
Gone   == [signed |-> FALSE, attrs |-> FALSE, type |-> "gone", keys |-> {}, job |-> Absent]

NoAttempt ==
    [m |-> 0, d |-> Unread, calls |-> <<>>, status |-> "failed", reported |-> <<>>,
     dispExc |-> NoExc, exc |-> NoExc, decision |-> "none", deleted |-> FALSE]

\* Nothing seen yet of a message.
NoObs == [sent |-> FALSE, kept |-> "none", again |-> "no", owed |-> FALSE, settled |-> <<>>]

\* The sequences that list every element of the finite set S once.
Orderings(S) ==
    { f \in [1..Cardinality(S) -> S] : \A i, j \in 1..Cardinality(S) : f[i] = f[j] => i = j }

\* The messages receive_messages of queue q may return: visible, not deleted.
Visible(q) == { m \in inQueue \ leased : queueOf[m] = q }

\* What receive_messages may return (lines 144-147): at most
\* MaxNumberOfMessages of the visible messages, in any order.
Batches(q) ==
    UNION { Orderings(S) : S \in { T \in SUBSET Visible(q) : Cardinality(T) <= MaxNumberOfMessages } }

SeqRange(sq) == { sq[i] : i \in 1..Len(sq) }

Init ==
    /\ msgs = [m \in MsgIds |-> Unread]
    /\ inQueue = MsgIds
    /\ leased = {}
    /\ pc = "idle"
    /\ qi = 0
    /\ batch = <<>>
    /\ last = NoAttempt
    /\ polled = {}
    /\ disp = [m \in MsgIds |-> "none"]
    /\ queueOf \in Placements
    /\ cycleExc = FALSE
    /\ obs = [m \in MsgIds |-> NoObs]

\* Mutant of StartCycle: process_notification_job without its try block, so
\* that an exception raised while listing the queues leaves it.
StartCycleUnguarded(listed) ==
    /\ pc = "idle"
    /\ polled' = {}
    /\ disp' = [m \in MsgIds |-> "none"]
    /\ batch' = <<>>
    /\ IF listed
       THEN /\ pc' = "poll"
            /\ qi' = 1
            /\ cycleExc' = FALSE
       ELSE /\ pc' = "crashed"
            /\ qi' = 0
            /\ cycleExc' = TRUE
    /\ UNCHANGED <<msgs, inQueue, leased, last, queueOf, obs>>

\* process_notification_job, lines 175-180, up to the loop of line 142: the
\* clients are built and the queues listed.  When that raises, the exception
\* leaves process_all_queues and process_notification_job prints it.
StartCycle(listed) ==
    /\ pc = "idle"
    /\ polled' = {}
    /\ disp' = [m \in MsgIds |-> "none"]
    /\ batch' = <<>>
    /\ IF listed
       THEN /\ pc' = "poll"
            /\ qi' = 1
            /\ cycleExc' = FALSE
       ELSE /\ pc' = "idle"
            /\ qi' = 0
            /\ cycleExc' = TRUE
    /\ UNCHANGED <<msgs, inQueue, leased, last, queueOf, obs>>

\* queue.receive_messages, lines 144-147, returns the batch b.
ReceiveMessages(b) ==
    /\ pc = "poll"
    /\ qi \in QueueIdx
    /\ batch' = b
    /\ leased' = leased \cup SeqRange(b)
    /\ polled' = polled \cup {qi}
    /\ disp' = [m \in MsgIds |-> IF m \in SeqRange(b) THEN "received" ELSE disp[m]]
    /\ pc' = "batch"
    /\ last' = NoAttempt
    /\ UNCHANGED <<msgs, inQueue, qi, queueOf, cycleExc, obs>>

\* queue.receive_messages raises: the handler of line 170 logs it and the loop
\* of line 142 goes on with the next queue.
ReceiveFails ==
    /\ pc = "poll"
    /\ qi \in QueueIdx
    /\ polled' = polled \cup {qi}
    /\ qi' = QueueAfterFault(qi)
    /\ last' = NoAttempt
    /\ UNCHANGED <<msgs, inQueue, leased, pc, batch, disp, queueOf, cycleExc, obs>>

\* What the producer can have put in message m: known once the processor has
\* read it, any message before.
Contents(m) == IF msgs[m] = Unread THEN Messages ELSE {msgs[m]}

\* Mutant of Iteration: message.delete() called before _process_message.
IterationDeletesFirst(d, gw, rs, rp, dl) ==
    LET r == ProcessMessageResult(d, gw, rs, rp)
        decision == HandlerDecision(r.exc)
    IN  [d        |-> d,
         calls    |-> (IF decision = "delete" THEN <<Call("delete", dl)>> ELSE <<>>) \o r.calls,
         status   |-> r.status,
         reported |-> r.reported,
         dispExc  |-> r.dispExc,
         exc      |-> r.exc,
         decision |-> decision,
         deleted  |-> decision = "delete" /\ dl = "ok",
         escaped  |-> decision = "propagate" \/ (decision = "delete" /\ dl = "fails")]

\* One iteration of the message loop on a message d, lines 149-169, when the
\* gateway, the template resolver, the status reporter and message.delete
\* answer gw, rs, rp and dl to the calls made to them.
Iteration(d, gw, rs, rp, dl) ==
    LET r == ProcessMessageResult(d, gw, rs, rp)
        decision == HandlerDecision(r.exc)
    IN  [d        |-> d,
         calls    |-> r.calls \o (IF decision = "delete" THEN <<Call("delete", dl)>> ELSE <<>>),
         status   |-> r.status,
         reported |-> r.reported,
         dispExc  |-> r.dispExc,
         exc      |-> r.exc,
         decision |-> decision,
         deleted  |-> decision = "delete" /\ dl = "ok",
         escaped  |-> decision = "propagate" \/ (decision = "delete" /\ dl = "fails")]

Iterations(d) ==
    { Iteration(d, gw, rs, rp, dl) :
        gw \in GatewayOutcomes, rs \in ApiOutcomes, rp \in ApiOutcomes, dl \in DeleteOutcomes }

\* Iterations, tabulated once per message content.
IterationsOf == [d \in Messages |-> Iterations(d)]

\* One iteration of the loop of line 148, lines 149-169, on the head of the
\* batch, and the handler of line 170 when an exception escapes it.  (obs is
\* not program state: each specification says what it records of the step.)
ProcessMessage ==
    /\ pc = "batch"
    /\ batch # <<>>
    /\ LET m == Head(batch)
       IN  \E d \in Contents(m) : \E it \in IterationsOf[d] :
           /\ last' = [m |-> m, d |-> d, calls |-> it.calls, status |-> it.status,
                       reported |-> it.reported, dispExc |-> it.dispExc, exc |-> it.exc,
                       decision |-> it.decision, deleted |-> it.deleted]
           /\ msgs' = [msgs EXCEPT ![m] = IF it.deleted THEN Gone ELSE d]
           /\ inQueue' = IF it.deleted THEN inQueue \ {m} ELSE inQueue
           /\ leased' = IF it.deleted THEN leased \ {m} ELSE leased
           /\ IF it.escaped
              THEN /\ batch' = <<>>
                   /\ qi' = QueueAfterFault(qi)
                   /\ pc' = "poll"
                   /\ disp' = [x \in MsgIds |->
                                 IF x = m THEN "fault"
                                 ELSE IF x \in SeqRange(Tail(batch)) THEN "skipped"
                                 ELSE disp[x]]
              ELSE /\ batch' = Tail(batch)
                   /\ qi' = qi
                   /\ pc' = "batch"
                   /\ disp' = [disp EXCEPT ![m] = IF it.deleted THEN "deleted" ELSE "retained"]
    /\ UNCHANGED <<polled, queueOf, cycleExc>>

\* The loop of line 148 is exhausted: the loop of line 142 takes the next queue.
QueueDone ==
    /\ pc = "batch"
    /\ batch = <<>>
    /\ qi' = qi + 1
    /\ pc' = "poll"
    /\ last' = NoAttempt
    /\ UNCHANGED <<msgs, inQueue, leased, batch, polled, disp, queueOf, cycleExc, obs>>

\* The loop of line 142 is exhausted: process_all_queues returns.
EndCycle ==
    /\ pc = "poll"
    /\ qi \notin QueueIdx
    /\ pc' = "idle"
    /\ qi' = 0
    /\ last' = NoAttempt
    /\ polled' = {}
    /\ disp' = [m \in MsgIds |-> "none"]
    /\ UNCHANGED <<msgs, inQueue, leased, batch, queueOf, cycleExc, obs>>

\* The visibility timeout (line 146) of the received, undeleted messages runs
\* out between two cycles: they can be received again.  (receive_messages may
\* return any part of the visible messages, so a message whose timeout still
\* runs is one the next receive does not return.)
LeaseExpire ==
    /\ pc = "idle"
    /\ leased # {}
    /\ leased' = {}
    /\ UNCHANGED <<msgs, inQueue, pc, qi, batch, last, polled, disp, queueOf, cycleExc, obs>>

Next ==
    \/ \E listed \in BOOLEAN : StartCycle(listed)
    \/ /\ pc = "poll"
       /\ \E b \in Batches(qi) : ReceiveMessages(b)
    \/ ReceiveFails
    \/ ProcessMessage /\ UNCHANGED obs
    \/ QueueDone
    \/ EndCycle
    \/ LeaseExpire

Spec == Init /\ [][Next]_vars

\* ------------------------------------- one message across poll cycles
\* RetrySpec follows a single message through its redeliveries and records in
\* obs what its earlier attempts did; it states the scheduling the code and
\* the queue service give.

\* The results, in the attempt a, of the calls of the operations in ops.
ResultsIn(a, ops) == { a.calls[i].res : i \in { j \in 1..Len(a.calls) : a.calls[j].op \in ops } }

GatewayOps == {"send_email", "send_sms"}

\* What left the message in the queue after the attempt a, whose gateway send
\* returned: the answer of create_notification when that call raised and the
\* exception was not ProcessingError (lines 118-123, 160-166, 170), or the
\* failure of message.delete (line 168).
KeptBy(a) ==
    IF a.deleted THEN "deleted"
    ELSE IF ResultsIn(a, {"create_notification"}) \cap {"503", "invalid", "other"} # {}
    THEN CHOOSE r \in ResultsIn(a, {"create_notification"}) : TRUE
    ELSE IF "fails" \in ResultsIn(a, {"delete"}) THEN "fails"
    ELSE "unexplained"

\* obs[m] after the attempt a on m, when it was o before:
\*   sent     a gateway send for m has returned successfully;
\*   kept     what left m in the queue after its latest successful send;
\*   again    when the gateway was first called for m after a successful send:
\*            what had left m in the queue;
\*   owed     a send succeeded and create_notification then answered 503, and
\*            no create_notification has succeeded since;
\*   settled  the status passed by the first create_notification that
\*            succeeded while owed, in the attempt that made it.
Observe(o, a) ==
    LET sendOk   == "ok" \in ResultsIn(a, GatewayOps)
        sendMade == ResultsIn(a, GatewayOps) # {}
        report   == ResultsIn(a, {"create_notification"})
    IN  [sent    |-> o.sent \/ sendOk,
         kept    |-> IF sendOk THEN KeptBy(a) ELSE o.kept,
         again   |-> IF o.sent /\ sendMade /\ o.again = "no" THEN o.kept ELSE o.again,
         owed    |-> IF "ok" \in report THEN FALSE
                     ELSE IF sendOk /\ "503" \in report THEN TRUE
                     ELSE o.owed,
         settled |-> IF o.owed /\ "ok" \in report THEN a.reported ELSE <<>>]

\* The producer has put one message, on either queue.
RetryInit ==
    /\ msgs = [m \in MsgIds |-> IF m = 1 THEN Unread ELSE Gone]
    /\ inQueue = {1}
    /\ leased = {}
    /\ pc = "idle"
    /\ qi = 0
    /\ batch = <<>>
    /\ last = NoAttempt
    /\ polled = {}
    /\ disp = [m \in MsgIds |-> "none"]
    /\ queueOf \in Placements
    /\ cycleExc = FALSE
    /\ obs = [m \in MsgIds |-> NoObs]

\* ProcessMessage, recorded.
ObservedAttempt ==
    /\ ProcessMessage
    /\ obs' = [obs EXCEPT ![last'.m] = Observe(@, last')]

\* queue.receive_messages answers, with a batch or an exception.
Poll ==
    \/ /\ pc = "poll"
       /\ \E b \in Batches(qi) : ReceiveMessages(b)
    \/ ReceiveFails

\* queue.receive_messages returns messages.
ReceiveSome ==
    /\ pc = "poll"
    /\ \E b \in Batches(qi) : b # <<>> /\ ReceiveMessages(b)

RetryNext ==
    \/ \E listed \in BOOLEAN : StartCycle(listed)
    \/ Poll
    \/ ObservedAttempt
    \/ QueueDone
    \/ EndCycle
    \/ LeaseExpire

\* The scheduler starts a cycle every 30 seconds (job_scheduler.py, line 10)
\* and listing the queues succeeds again and again; inside a cycle every call
\* returns or raises, so the cycle takes its next step; a visibility timeout
\* runs out; a visible message is returned by some later receive.
RetryFairness ==
    /\ WF_vars(StartCycle(TRUE))
    /\ WF_vars(Poll)
    /\ WF_vars(ObservedAttempt)
    /\ WF_vars(QueueDone)
    /\ WF_vars(EndCycle)
    /\ SF_vars(LeaseExpire)
    /\ SF_vars(ReceiveSome)

RetrySpec == RetryInit /\ [][RetryNext]_vars /\ RetryFairness

\* ===================================================== claims, C1 to C10
\* What the formulas below read off the state.
Attempted == last.m # 0
Decodable(d) == d.signed /\ d.attrs /\ ("to" \in d.keys \/ "to_address" \in d.keys)
CarriesJob(d) == d.signed /\ d.job # Absent
NonEmptyJob(d) == d.signed /\ d.job # Absent /\ d.job # ""
Results(op) == { last.calls[i].res : i \in { j \in 1..Len(last.calls) : last.calls[j].op = op } }
Count(op) == Cardinality({ i \in 1..Len(last.calls) : last.calls[i].op = op })
GatewaySendOk == "ok" \in (Results("send_email") \cup Results("send_sms"))
DeleteCalled == Count("delete") > 0
StillQueued == last.m \in inQueue

\* C1 (as stated): for every message whose decrypted payload carries a job,
\* each processing attempt invokes the Status Reporter exactly once.
C1_AsStated == (Attempted /\ CarriesJob(last.d)) => Count("create_notification") = 1

\* C1 (amended): for every message that decodes (authentic body, the four
\* attributes, a recipient) and whose payload carries a non-empty job, each
\* processing attempt invokes the Status Reporter exactly once, whether
\* dispatch succeeded, failed permanently, failed transiently or raised an
\* unclassified exception.
C1_ReporterOncePerAttempt ==
    (Attempted /\ Decodable(last.d) /\ NonEmptyJob(last.d))
        => /\ Count("create_notification") = 1
           /\ Len(last.reported) = 1

C1_Witness ==
    /\ Attempted
    /\ NonEmptyJob(last.d)
    /\ last.dispExc = ExternalConnectionError
    /\ Count("create_notification") = 1

\* C2: for every failure kind of the taxonomy, a message whose processing
\* attempt ends in that failure is deleted by process_all_queues if and only
\* if the kind is permanent: deleted for a decode failure, ProcessingFailure
\* and InvalidResponseFailure, retained for ExternalFailure.
C2_DeleteIffPermanent ==
    Attempted =>
        /\ ~Decodable(last.d) => DeleteCalled
        /\ last.exc = ProcessingError => DeleteCalled
        /\ last.exc = InvalidResponse => DeleteCalled
        /\ last.exc = ExternalConnectionError => ~DeleteCalled

\* C3 (as stated): an SMS without inline content whose template lookup
\* reports service-unavailable ends in ExternalFailure, is retained, and when
\* a job is present the Status Reporter is invoked with status failed.
C3_AsStated ==
    (Attempted /\ "503" \in Results("get_template"))
        => /\ last.exc = ExternalConnectionError
           /\ ~DeleteCalled
           /\ CarriesJob(last.d) => last.reported = <<"failed">>

\* C3 (amended): for such a message dispatch ends in ExternalFailure and, when
\* a non-empty job is present, the Status Reporter is invoked once with status
\* failed; the attempt ends in ExternalFailure and the message is retained
\* unless the Status Reporter call itself fails otherwise than by
\* service-unavailable: an other-API-error then ends the attempt in
\* ProcessingFailure and the message is deleted; a malformed response or an
\* unclassified exception propagates and leaves the message undeleted.
C3_TemplateUnavailable ==
    (Attempted /\ "503" \in Results("get_template"))
        => /\ last.d.type = "sms" /\ "content" \notin last.d.keys
           /\ last.dispExc = ExternalConnectionError
           /\ Results("send_sms") = {}
           /\ NonEmptyJob(last.d) => last.reported = <<"failed">>
           /\ ~NonEmptyJob(last.d) => last.reported = <<>>
           /\ Results("create_notification") \subseteq {"ok", "503"}
                => (last.exc = ExternalConnectionError /\ ~DeleteCalled /\ StillQueued)
           /\ Results("create_notification") = {"http"}
                => (last.exc = ProcessingError /\ DeleteCalled)
           /\ Results("create_notification") \cap {"invalid", "other"} # {}
                => (~DeleteCalled /\ StillQueued)

C3_Witness ==
    /\ Attempted
    /\ "503" \in Results("get_template")
    /\ last.d.job = "J1"
    /\ last.reported = <<"failed">>
    /\ Results("create_notification") = {"ok"}
    /\ last.exc = ExternalConnectionError
    /\ StillQueued

\* C4: for every message whose decrypted payload carries no job, the Status
\* Reporter is never invoked during its processing, on any path or outcome.
C4_NoJobNoReport ==
    (Attempted /\ last.d.job = Absent)
        => (Count("create_notification") = 0 /\ last.reported = <<>>)

C4_Witness ==
    /\ Attempted
    /\ Decodable(last.d)
    /\ last.d.job = Absent
    /\ last.dispExc = ProcessingError
    /\ Count("send_sms") = 1
    /\ Count("create_notification") = 0

\* C5: when the Status Reporter call fails after dispatch has failed, the
\* failure the message loop sees, and so the retain/delete decision, is the
\* reporter's: service-unavailable gives ExternalFailure and the message is
\* retained even if dispatch failed permanently; an other-API-error gives
\* ProcessingFailure and the message is deleted even if dispatch failed
\* transiently.
C5_ReporterFailureSupersedes ==
    (Attempted /\ last.dispExc # NoExc)
        => /\ "503" \in Results("create_notification")
                => (last.exc = ExternalConnectionError /\ ~DeleteCalled /\ StillQueued)
           /\ "http" \in Results("create_notification")
                => /\ last.exc = ProcessingError
                   /\ DeleteCalled
                   /\ "ok" \in Results("delete") => ~StillQueued

C5_Witness ==
    /\ Attempted
    /\ last.dispExc = ExternalConnectionError
    /\ "http" \in Results("create_notification")
    /\ last.exc = ProcessingError
    /\ ~StillQueued

\* C6: within one cycle, an unclassified exception raised while processing
\* message k of a queue's batch leaves k and every later message of that
\* batch undeleted and the earlier deletions in place, and every other queue
\* of the cycle is still polled and its batch processed to completion.
LoopExhausted == pc = "poll" /\ qi \notin QueueIdx
C6_QueueIsolation ==
    /\ \A m \in MsgIds : disp[m] \in {"fault", "skipped"} => m \in inQueue
    /\ \A m \in MsgIds : disp[m] = "deleted" => m \notin inQueue
    /\ \A m \in MsgIds : disp[m] = "skipped"
          => \E k \in MsgIds : queueOf[k] = queueOf[m] /\ disp[k] = "fault"
    /\ LoopExhausted
          => /\ polled = QueueIdx
             /\ \A m \in MsgIds : disp[m] # "received"

C6_Witness ==
    /\ LoopExhausted
    /\ queueOf[1] = 1 /\ disp[1] = "fault"
    /\ queueOf[2] = 2 /\ disp[2] = "deleted"
    /\ polled = QueueIdx

\* C7 (as stated): for every valid email payload and every inline-content SMS
\* payload, with or without a job, a successful gateway send yields status
\* sent and the message is deleted in that same cycle.
DirectSend(d) ==
    /\ Decodable(d)
    /\ \/ d.type = "email" /\ EmailPayload \subseteq d.keys
       \/ d.type = "sms" /\ SmsInline \subseteq d.keys
C7_AsStated ==
    (Attempted /\ DirectSend(last.d) /\ GatewaySendOk)
        => (last.status = "sent" /\ DeleteCalled)

\* C7 (amended): for such a payload a successful gateway send yields status
\* sent, and message.delete is called in that same cycle exactly when no
\* non-empty job is present, or the Status Reporter call succeeds or fails
\* with an other-API-error; when the reporter reports service-unavailable the
\* message is retained, and when it raises a malformed response or an
\* unclassified exception the message is left undeleted.
C7_SentThenDeleted ==
    (Attempted /\ DirectSend(last.d) /\ GatewaySendOk)
        => /\ last.status = "sent"
           /\ last.dispExc = NoExc
           /\ DeleteCalled <=> Results("create_notification") \subseteq {"ok", "http"}
           /\ ~NonEmptyJob(last.d) => DeleteCalled
           /\ "ok" \in Results("delete") => ~StillQueued
           /\ ~DeleteCalled => StillQueued

C7_Witness ==
    /\ Attempted
    /\ last.d.type = "email"
    /\ last.d.job = "J1"
    /\ GatewaySendOk
    /\ last.reported = <<"sent">>
    /\ Results("create_notification") = {"ok"}
    /\ ~StillQueued

\* C8: a message that fails decoding (signature, a missing attribute, or a
\* payload without to/to_address) is a permanent failure: it is deleted from
\* the queue in the cycle that received it.
C8_DecodeFailureDeleted == (Attempted /\ ~Decodable(last.d)) => DeleteCalled

\* C9 (as stated): for every message whose type is neither email nor sms, no
\* gateway or resolver call is made, the attempt ends in ProcessingFailure,
\* the message is deleted, and the Status Reporter is called with status
\* failed if and only if a job is present.
UnknownType(d) == Decodable(d) /\ d.type \notin {"email", "sms"}
C9_AsStated ==
    (Attempted /\ UnknownType(last.d))
        => /\ Count("send_email") + Count("send_sms") + Count("get_template") = 0
           /\ last.exc = ProcessingError
           /\ DeleteCalled
           /\ last.reported = <<"failed">> <=> CarriesJob(last.d)

\* C9 (amended): for such a message no gateway or resolver call is made and
\* dispatch ends in ProcessingFailure; the Status Reporter is called, once and
\* with status failed, if and only if a non-empty job is present; the attempt
\* ends in ProcessingFailure and the message is deleted unless that call fails
\* with service-unavailable (ExternalFailure, retained) or raises a malformed
\* response or an unclassified exception (left undeleted).
C9_UnknownType ==
    (Attempted /\ UnknownType(last.d))
        => /\ Count("send_email") + Count("send_sms") + Count("get_template") = 0
           /\ last.dispExc = ProcessingError
           /\ last.reported = <<"failed">> <=> NonEmptyJob(last.d)
           /\ Count("create_notification") = (IF NonEmptyJob(last.d) THEN 1 ELSE 0)
           /\ Results("create_notification") \subseteq {"ok", "http"}
                => (last.exc = ProcessingError /\ DeleteCalled)
           /\ "503" \in Results("create_notification")
                => (last.exc = ExternalConnectionError /\ ~DeleteCalled /\ StillQueued)
           /\ Results("create_notification") \cap {"invalid", "other"} # {}
                => (~DeleteCalled /\ StillQueued)

C9_Witness ==
    /\ Attempted
    /\ last.d.type = "fax"
    /\ last.d.job = "J1"
    /\ last.reported = <<"failed">>
    /\ last.exc = ProcessingError
    /\ ~StillQueued

\* C10: in every processing attempt the status passed to the Status Reporter
\* is sent if and only if a gateway send (send_email or send_sms) returned
\* successfully in that attempt; on every other path the status is failed.
C10_StatusSentIffGatewayOk ==
    Attempted
        => /\ last.status = "sent" <=> GatewaySendOk
           /\ last.status \in {"sent", "failed"}
           /\ Count("create_notification") > 0 => last.reported = <<last.status>>
           /\ last.reported = <<"sent">> => GatewaySendOk
           /\ (Count("create_notification") > 0 /\ GatewaySendOk) => last.reported = <<"sent">>

C10_Witness ==
    /\ Attempted
    /\ "client_error" \in Results("send_sms")
    /\ "ok" \in Results("get_template")
    /\ last.reported = <<"failed">>

\* ==================================================== claims, C11 to C18
\* An SMS message that decodes and whose payload has no content field.
TemplateSms(d) == Decodable(d) /\ d.type = "sms" /\ "content" \notin d.keys

\* Position in last.calls of the first call of operation op, 0 when none.
FirstCall(op) ==
    IF Count(op) = 0 THEN 0
    ELSE CHOOSE i \in 1..Len(last.calls) :
            /\ last.calls[i].op = op
            /\ \A j \in 1..(i - 1) : last.calls[j].op # op

\* C11: for every SMS message whose decrypted payload has no content field,
\* dispatch calls the Template Resolver exactly once and, when the resolver
\* succeeds, then calls the gateway's SMS send; no such message completes an
\* attempt without either a resolver call or a raised failure.
C11_TemplateResolved ==
    (Attempted /\ TemplateSms(last.d))
        => /\ Count("get_template") = 1
           /\ "ok" \in Results("get_template")
                => /\ Count("send_sms") = 1
                   /\ FirstCall("get_template") < FirstCall("send_sms")
           /\ Count("get_template") = 0 => last.dispExc # NoExc

\* A classified failure: one of the three exception classes the processor
\* names, raised by a notify API call (resolver or reporter) or by a gateway
\* handler.
Classified == {ProcessingError, ExternalConnectionError, InvalidResponse}

\* C12: a classified failure on one message is handled per message: the
\* message loop goes on with the remaining messages of the batch, which is not
\* abandoned.  (A message.delete that
\* raises is an unclassified failure of its own.)
C12_ClassifiedHandledPerMessage ==
    (Attempted /\ last.exc \in Classified /\ "fails" \notin Results("delete"))
        => /\ disp[last.m] # "fault"
           /\ pc = "batch"

\* C13 (as stated): for a job-linked message whose gateway send succeeded in
\* some attempt but whose Status Reporter call then failed with
\* service-unavailable, the status recorded by the first later attempt in
\* which the reporter call succeeds is sent.
C13_AsStated == \A m \in MsgIds : obs[m].settled # <<"failed">>

\* C13 (amended): for such a message, the status recorded by the first later
\* attempt in which the reporter call succeeds is the status of that
\* attempt's own dispatch: sent if and only if the gateway send made in that
\* attempt returns successfully, failed otherwise.
C13_LaterAttemptReportsItsOwnStatus ==
    (Attempted /\ obs[last.m].settled # <<>>)
        => /\ obs[last.m].settled = last.reported
           /\ obs[last.m].settled = <<"sent">> <=> GatewaySendOk
           /\ obs[last.m].settled = <<"failed">> <=> ~GatewaySendOk

C13_Witness ==
    /\ Attempted
    /\ NonEmptyJob(last.d)
    /\ obs[last.m].settled = <<"sent">>
    /\ obs[last.m].again = "503"

\* Every call made in the attempt just finished was answered without an
\* outage or a fault of the dependency called.
Available ==
    \A i \in 1..Len(last.calls) : last.calls[i].res \in {"ok", "client_error", "http"}

RetainedAfterExternalFailure(m) ==
    Attempted /\ last.m = m /\ last.exc = ExternalConnectionError /\ m \in inQueue

\* C14: a message retained after ExternalConnectionError is processed again
\* in a later cycle: while an attempt ends in ExternalConnectionError the
\* message is not deleted, and if cycles keep being triggered and from some
\* point on every dependency stays available, the message is eventually
\* deleted.
C14_RetriedUntilDeleted ==
    /\ [](Attempted /\ last.exc = ExternalConnectionError => StillQueued /\ ~DeleteCalled)
    /\ \A m \in MsgIds :
          (<>RetainedAfterExternalFailure(m) /\ <>[]Available) => <>(m \notin inQueue)

\* C15: every cycle started by process_notification_job terminates, whatever
\* failed inside it, and leaves the processor where the next cycle can start.
C15_CycleTerminates ==
    [](pc # "idle" => <>(pc = "idle" /\ ENABLED StartCycle(TRUE)))

C15_Witness ==
    /\ LoopExhausted
    /\ \E m \in MsgIds : disp[m] = "fault"
    /\ ENABLED EndCycle

\* C16 (as stated): a message for which a gateway send has once returned
\* successfully is never passed to the gateway again.
C16_AsStated == \A m \in MsgIds : obs[m].again = "no"

\* C16 (amended): a message whose gateway send returned successfully stays in
\* the queue only when the create_notification call of that attempt answered
\* service-unavailable, an invalid response or an unclassified failure, or
\* when message.delete raised; only then is it passed to the gateway again.
\* Otherwise it is deleted in that attempt, and a deleted message is never
\* received again.
C16_ResentOnlyWhenKept ==
    \A m \in MsgIds :
        /\ obs[m].again \in {"no", "503", "invalid", "other", "fails"}
        /\ (obs[m].sent /\ m \in inQueue) => obs[m].kept \in {"503", "invalid", "other", "fails"}
        /\ m \notin inQueue => m \notin SeqRange(batch) /\ m \notin leased

C16_Witness ==
    /\ Attempted
    /\ obs[last.m].again = "503"
    /\ GatewaySendOk
    /\ last.deleted

\* C17: no message is silently lost: whenever the message loop deletes a
\* message, the attempt that preceded the deletion either completed a
\* successful gateway send or ended in a logged ProcessingError; a message is
\* never deleted after an attempt that made no send and raised no failure.
C17_NoSilentLoss ==
    (Attempted /\ last.deleted)
        => \/ GatewaySendOk
           \/ last.exc = ProcessingError

\* C18: within one processing attempt the order of effects is fixed: a
\* gateway send precedes the Status Reporter call, which (when a job is
\* present) precedes message.delete; the message is deleted at most once per
\* attempt, and only after dispatch and finalization, as the last call.
C18_OrderOfEffects ==
    Attempted =>
        /\ Count("delete") <= 1
        /\ Count("create_notification") <= 1
        /\ \A i, j \in 1..Len(last.calls) :
              (last.calls[i].op \in GatewayOps /\ last.calls[j].op = "create_notification")
                  => i < j
        /\ \A i \in 1..Len(last.calls) : last.calls[i].op = "delete" => i = Len(last.calls)
        /\ (DeleteCalled /\ Decodable(last.d) /\ NonEmptyJob(last.d))
              => FirstCall("create_notification") = Len(last.calls) - 1
        /\ last.deleted => DeleteCalled

C18_Witness ==
    /\ Attempted
    /\ GatewaySendOk
    /\ Count("create_notification") = 1
    /\ last.deleted
    /\ Len(last.calls) = 3

====
